---------------------------- MODULE Spec2Model ----------------------------
(***************************************************************************)
(* Admission control and dispatch of ansibledriver/service/process.py:     *)
(* AnsibleProcessorService (run_lifecycle, shutdown), QueueThread,          *)
(* AnsibleWorkerThread / AnsibleWorkerProcess, ResponsesThread, Counter.    *)
(*                                                                         *)
(* The request queue (ansibledriver.service.queue.RequestQueue) is not     *)
(* part of the sources at hand; its operations are modelled from the       *)
(* collaborator contract of the specification (the Queue* operators).      *)
(* The execution collaborator (ansible_client.run_lifecycle_playbook) is a *)
(* black box: it returns a COMPLETE Result echoing the request_id, returns *)
(* None, or raises.  use_pool is False (the default), so requests go       *)
(* through QueueThread.  Request r is the r-th call of run_lifecycle to    *)
(* begin; calls, shutdown(), QueueThread, the workers and ResponsesThread  *)
(* interleave at every access to shared state.                             *)
(***************************************************************************)
EXTENDS Integers, Sequences, FiniteSets, Bags, TLC

\* ---------------------------------------------------------------- bounds
MaxRequests == 2
MaxShutdowns == 2
\* configuration (ProcessProperties), bounded so that the limits are reached
max_queue_size == 1
max_concurrent_ansible_processes == 1

\* ------------------------------------------------------------- constants
SHUTDOWN_MESSAGE == 0
None == -1

RequestIds == 1..MaxRequests
Fields == {"request_id", "lifecycle_name", "lifecycle_path"}
Outputs == {"{k:v}"}
ExecMessages == {"boom"}

STATUS_COMPLETE == "COMPLETE"
STATUS_FAILED == "FAILED"
FAILURE_CODE_INSUFFICIENT_CAPACITY == "INSUFFICIENT_CAPACITY"
FAILURE_CODE_INTERNAL_ERROR == "INTERNAL_ERROR"
NoFailureCode == "none"

\* LifecycleExecution(request_id, status, FailureDetails(code, description), outputs)
LifecycleExecution(request_id, status, failure_code, description, outputs) ==
  [request_id |-> request_id, status |-> status, failure_code |-> failure_code,
   description |-> description, outputs |-> outputs]

OverloadedResult(request_id) ==
  LifecycleExecution(request_id, STATUS_FAILED, FAILURE_CODE_INSUFFICIENT_CAPACITY,
                     <<"Request cannot be handled, driver is overloaded">>, "{}")

InactiveResult(request_id) ==
  LifecycleExecution(request_id, STATUS_FAILED, FAILURE_CODE_INSUFFICIENT_CAPACITY,
                     <<"Driver is inactive">>, "{}")

\* "Unexpected exception: {0}".format(e)
InternalErrorResult(request_id, e) ==
  LifecycleExecution(request_id, STATUS_FAILED, FAILURE_CODE_INTERNAL_ERROR,
                     <<"Unexpected exception: ", e>>, "{}")

\* what the execution collaborator does with one request
NoOutcome == [kind |-> "none", val |-> ""]
ExecOutcomes ==
  {[kind |-> "complete", val |-> o] : o \in Outputs}
    \cup {[kind |-> "empty", val |-> ""]}
    \cup {[kind |-> "raise", val |-> m] : m \in ExecMessages}

\* ------------------------------------------------------------------ state
VARIABLES
  active,             \* AnsibleProcessorService.active
  request_queue,      \* RequestQueue: [items, accepting]
  counter,            \* Counter.val
  send_pipe_closed,   \* the parent's send_pipe has been closed
  pipe,               \* Results written to the pipe and not yet received
  sent,               \* bag of Results given to messaging_service.send_lifecycle_execution
  is_threaded,        \* ProcessProperties.is_threaded
  callPc,             \* position of the run_lifecycle call of each request
  fields,             \* the keys present in each submitted request
  raised,             \* the message of the ValueError the call raised, if any
  lateCall,           \* the latest call began after a shutdown() had returned
  wState,             \* worker of each request: none, start_failed, running,
                      \* finished, crashed
  wHandleOpen,        \* process worker: its inherited copy of send_pipe is open
  execOutcome,        \* what the collaborator did for each request
  wEscaped,           \* the exception that left the worker's run(), if any
  dPc, dReq,          \* QueueThread: position and the dequeued item
  unacked,            \* items obtained from next() minus calls of task_done()
  aPc,                \* ResponsesThread: position
  shPc, shutdowns     \* shutdown(): position, and number of calls returned

vars == <<active, request_queue, counter, send_pipe_closed, pipe, sent, is_threaded,
          callPc, fields, raised, lateCall, wState, wHandleOpen,
          execOutcome, wEscaped, dPc, dReq, unacked, aPc, shPc, shutdowns>>

callVars == <<callPc, fields, raised, lateCall>>
workerVars == <<wState, wHandleOpen, execOutcome, wEscaped>>
dispatchVars == <<dPc, dReq, unacked>>
shutdownVars == <<shPc, shutdowns>>

\* ------------------------------------------------- RequestQueue (contract)
QueueSize(q) == Len(q.items)

QueuePut(q, item) ==
  IF q.accepting THEN [q EXCEPT !.items = Append(@, item)] ELSE q

QueueNext(q) == IF q.items = <<>> THEN None ELSE Head(q.items)

QueueAfterNext(q) ==
  IF q.items = <<>> THEN q ELSE [q EXCEPT !.items = Tail(@)]

QueueShutdown(q) ==
  [items |-> Append(q.items, SHUTDOWN_MESSAGE), accepting |-> FALSE]

\* ---------------------------------------------------------------- helpers
Publish(bag, result) == bag (+) SetToBag({result})

Published(request_id) == {res \in BagToSet(sent) : res.request_id = request_id}

PublishedCount(request_id) ==
  LET rs == Published(request_id)
      RECURSIVE Sum(_)
      Sum(S) == IF S = {} THEN 0
                ELSE LET x == CHOOSE y \in S : TRUE
                     IN CopiesIn(x, sent) + Sum(S \ {x})
  IN Sum(rs)

InQueue(item) == \E i \in 1..Len(request_queue.items) : request_queue.items[i] = item

InPipe(request_id) == \E i \in 1..Len(pipe) : pipe[i].request_id = request_id

\* ------------------------------------------------------------------- Init
Init ==
  /\ active = TRUE
  /\ request_queue = [items |-> <<>>, accepting |-> TRUE]
  /\ counter = 0
  /\ send_pipe_closed = FALSE
  /\ pipe = <<>>
  /\ sent = EmptyBag
  /\ is_threaded \in BOOLEAN
  /\ callPc = [r \in RequestIds |-> "new"]
  /\ fields = [r \in RequestIds |-> {}]
  /\ raised = [r \in RequestIds |-> "none"]
  /\ lateCall = FALSE
  /\ wState = [r \in RequestIds |-> "none"]
  /\ wHandleOpen = [r \in RequestIds |-> FALSE]
  /\ execOutcome = [r \in RequestIds |-> NoOutcome]
  /\ wEscaped = [r \in RequestIds |-> "none"]
  /\ dPc = "loop"
  /\ dReq = None
  /\ unacked = 0
  /\ aPc = "loop"
  /\ shPc = "idle"
  /\ shutdowns = 0

\* ------------------------------------ AnsibleProcessorService.run_lifecycle
\* ValidationError with the keys checked in another order
ValidationError_path_first(f) ==
  IF "lifecycle_path" \notin f THEN "Request must have a lifecycle_path"
  ELSE IF "lifecycle_name" \notin f THEN "Request must have a lifecycle_name"
  ELSE IF "request_id" \notin f THEN "Request must have a request_id"
  ELSE "none"

\* lines 81-86: the first missing key decides the ValueError
ValidationError(f) ==
  IF "request_id" \notin f THEN "Request must have a request_id"
  ELSE IF "lifecycle_name" \notin f THEN "Request must have a lifecycle_name"
  ELSE IF "lifecycle_path" \notin f THEN "Request must have a lifecycle_path"
  ELSE "none"

\* run_lifecycle_enter without the test of self.active
run_lifecycle_enter_no_active_test(r, f) ==
  /\ callPc[r] = "new"
  /\ \A q \in RequestIds : q < r => callPc[q] # "new"
  /\ fields' = [fields EXCEPT ![r] = f]
  /\ raised' = [raised EXCEPT ![r] = ValidationError(f)]
  /\ lateCall' = (shutdowns >= 1)
  /\ callPc' = [callPc EXCEPT ![r] =
                  IF ValidationError(f) # "none" THEN "raised" ELSE "active_seen"]
  /\ UNCHANGED <<active, request_queue, counter, send_pipe_closed, pipe, sent,
                 is_threaded, workerVars, dispatchVars, aPc, shutdownVars>>

\* lines 80-89 (and 96): the caller enters run_lifecycle with a request holding
\* the keys f; request r is the r-th call to begin (request ids are opaque
\* tokens). The checks of the keys touch nothing shared, so they are one step
\* with the read of self.active that follows them.
run_lifecycle_enter(r, f) ==
  /\ callPc[r] = "new"
  /\ \A q \in RequestIds : q < r => callPc[q] # "new"
  /\ fields' = [fields EXCEPT ![r] = f]
  /\ raised' = [raised EXCEPT ![r] = ValidationError(f)]
  /\ lateCall' = (shutdowns >= 1)
  /\ IF ValidationError(f) # "none"
       THEN /\ callPc' = [callPc EXCEPT ![r] = "raised"]
            /\ sent' = sent
       ELSE IF active = TRUE
       THEN /\ callPc' = [callPc EXCEPT ![r] = "active_seen"]
            /\ sent' = sent
       ELSE /\ callPc' = [callPc EXCEPT ![r] = "rejected_inactive"]
            /\ sent' = Publish(sent, InactiveResult(r))
  /\ UNCHANGED <<active, request_queue, counter, send_pipe_closed, pipe, is_threaded,
                 workerVars, dispatchVars, aPc, shutdownVars>>

\* run_lifecycle_check_size comparing with > where the code has >=
run_lifecycle_check_size_gt(r) ==
  /\ callPc[r] = "active_seen"
  /\ IF QueueSize(request_queue) > max_queue_size
       THEN /\ callPc' = [callPc EXCEPT ![r] = "rejected_overloaded"]
            /\ sent' = Publish(sent, OverloadedResult(r))
       ELSE /\ callPc' = [callPc EXCEPT ![r] = "admitting"]
            /\ sent' = sent
  /\ UNCHANGED <<active, request_queue, counter, send_pipe_closed, pipe, is_threaded,
                 fields, raised, lateCall, workerVars, dispatchVars, aPc,
                 shutdownVars>>

\* lines 90-91: if self.request_queue.size() >= max_queue_size: overloaded
run_lifecycle_check_size(r) ==
  /\ callPc[r] = "active_seen"
  /\ IF QueueSize(request_queue) >= max_queue_size
       THEN /\ callPc' = [callPc EXCEPT ![r] = "rejected_overloaded"]
            /\ sent' = Publish(sent, OverloadedResult(r))
       ELSE /\ callPc' = [callPc EXCEPT ![r] = "admitting"]
            /\ sent' = sent
  /\ UNCHANGED <<active, request_queue, counter, send_pipe_closed, pipe, is_threaded,
                 fields, raised, lateCall, workerVars, dispatchVars, aPc,
                 shutdownVars>>

\* lines 92-93: else self.request_queue.put(request)
run_lifecycle_put(r) ==
  /\ callPc[r] = "admitting"
  /\ request_queue' = QueuePut(request_queue, r)
  /\ callPc' = [callPc EXCEPT ![r] =
                  IF request_queue.accepting THEN "queued" ELSE "put_refused"]
  /\ UNCHANGED <<active, counter, send_pipe_closed, pipe, sent, is_threaded,
                 fields, raised, lateCall, workerVars, dispatchVars, aPc,
                 shutdownVars>>

\* ------------------------------------------- AnsibleProcessorService.shutdown
\* shutdown_set_inactive flipping the flag instead of clearing it
shutdown_set_inactive_toggle ==
  /\ shPc = "idle"
  /\ shutdowns < MaxShutdowns
  /\ active' = ~active
  /\ shPc' = "queue_shutdown"
  /\ UNCHANGED <<request_queue, counter, send_pipe_closed, pipe, sent, is_threaded,
                 callVars, workerVars, dispatchVars, aPc, shutdowns>>

\* line 127: self.active = False
shutdown_set_inactive ==
  /\ shPc = "idle"
  /\ shutdowns < MaxShutdowns
  /\ active' = FALSE
  /\ shPc' = "queue_shutdown"
  /\ UNCHANGED <<request_queue, counter, send_pipe_closed, pipe, sent, is_threaded,
                 callVars, workerVars, dispatchVars, aPc, shutdowns>>

\* line 129: self.request_queue.shutdown()
shutdown_queue ==
  /\ shPc = "queue_shutdown"
  /\ request_queue' = QueueShutdown(request_queue)
  /\ shPc' = "pipe_close"
  /\ UNCHANGED <<active, counter, send_pipe_closed, pipe, sent, is_threaded,
                 callVars, workerVars, dispatchVars, aPc, shutdowns>>

\* shutdown_close_pipe that re-arms the driver when shutdown() returns
shutdown_close_pipe_reactivate ==
  /\ shPc = "pipe_close"
  /\ send_pipe_closed' = TRUE
  /\ active' = TRUE
  /\ shPc' = "idle"
  /\ shutdowns' = shutdowns + 1
  /\ UNCHANGED <<request_queue, counter, pipe, sent, is_threaded,
                 callVars, workerVars, dispatchVars, aPc>>

\* line 130: self.send_pipe.close(); closing a closed Connection does nothing
shutdown_close_pipe ==
  /\ shPc = "pipe_close"
  /\ send_pipe_closed' = TRUE
  /\ shPc' = "idle"
  /\ shutdowns' = shutdowns + 1
  /\ UNCHANGED <<active, request_queue, counter, pipe, sent, is_threaded,
                 callVars, workerVars, dispatchVars, aPc>>

\* ------------------------------------------------------------ QueueThread.run
\* line 151: while self.ansible_processor.active
QueueThread_loop ==
  /\ dPc = "loop"
  /\ dPc' = IF active THEN "next" ELSE "done"
  /\ UNCHANGED <<active, request_queue, counter, send_pipe_closed, pipe, sent,
                 is_threaded, callVars, workerVars, dReq, unacked, aPc, shutdownVars>>

\* lines 153-154: request = self.request_queue.next(); None when nothing arrived
QueueThread_next ==
  /\ dPc = "next"
  /\ dReq' = QueueNext(request_queue)
  /\ request_queue' = QueueAfterNext(request_queue)
  /\ dPc' = IF QueueNext(request_queue) = None THEN "loop" ELSE "got"
  /\ unacked' = IF QueueNext(request_queue) = None THEN unacked ELSE unacked + 1
  /\ UNCHANGED <<active, counter, send_pipe_closed, pipe, sent, is_threaded,
                 callVars, workerVars, aPc, shutdownVars>>

\* QueueThread_shutdown_message without the break: the loop goes on
QueueThread_shutdown_message_no_break ==
  /\ dPc = "got"
  /\ dReq = SHUTDOWN_MESSAGE
  /\ dPc' = "loop"
  /\ dReq' = None
  /\ unacked' = unacked - 1
  /\ UNCHANGED <<active, request_queue, counter, send_pipe_closed, pipe, sent,
                 is_threaded, callVars, workerVars, aPc, shutdownVars>>

\* lines 155-157: the SHUTDOWN_MESSAGE ends the loop
QueueThread_shutdown_message ==
  /\ dPc = "got"
  /\ dReq = SHUTDOWN_MESSAGE
  /\ dPc' = "done"
  /\ dReq' = None
  /\ unacked' = unacked - 1
  /\ UNCHANGED <<active, request_queue, counter, send_pipe_closed, pipe, sent,
                 is_threaded, callVars, workerVars, aPc, shutdownVars>>

\* QueueThread_spawn whose test of the counter also passes at the limit
QueueThread_spawn_le(started) ==
  /\ dPc = "got"
  /\ dReq # SHUTDOWN_MESSAGE
  /\ counter <= max_concurrent_ansible_processes
  /\ counter' = counter + 1
  /\ IF started
       THEN /\ wState' = [wState EXCEPT ![dReq] = "running"]
            /\ wHandleOpen' = [wHandleOpen EXCEPT ![dReq] = ~send_pipe_closed]
       ELSE /\ wState' = [wState EXCEPT ![dReq] = "start_failed"]
            /\ wHandleOpen' = wHandleOpen
  /\ unacked' = unacked - 1
  /\ dPc' = "loop"
  /\ dReq' = None
  /\ UNCHANGED <<active, request_queue, send_pipe_closed, pipe, sent, is_threaded,
                 callVars, execOutcome, wEscaped, aPc, shutdownVars>>

\* QueueThread_spawn with task_done() after worker.start() instead of in a
\* finally: it is skipped when the start raises
QueueThread_spawn_no_finally(started) ==
  /\ dPc = "got"
  /\ dReq # SHUTDOWN_MESSAGE
  /\ counter < max_concurrent_ansible_processes
  /\ counter' = counter + 1
  /\ IF started
       THEN /\ wState' = [wState EXCEPT ![dReq] = "running"]
            /\ wHandleOpen' = [wHandleOpen EXCEPT ![dReq] = ~send_pipe_closed]
            /\ unacked' = unacked - 1
       ELSE /\ wState' = [wState EXCEPT ![dReq] = "start_failed"]
            /\ wHandleOpen' = wHandleOpen
            /\ unacked' = unacked
  /\ dPc' = "loop"
  /\ dReq' = None
  /\ UNCHANGED <<active, request_queue, send_pipe_closed, pipe, sent, is_threaded,
                 callVars, execOutcome, wEscaped, aPc, shutdownVars>>

\* lines 158-176: below the limit: increment the counter and start a worker;
\* worker.start() may raise (started = FALSE), the finally and the outer except
\* let the loop go on
QueueThread_spawn(started) ==
  /\ dPc = "got"
  /\ dReq # SHUTDOWN_MESSAGE
  /\ counter < max_concurrent_ansible_processes
  /\ counter' = counter + 1
  /\ IF started
       THEN /\ wState' = [wState EXCEPT ![dReq] = "running"]
            /\ wHandleOpen' = [wHandleOpen EXCEPT ![dReq] = ~send_pipe_closed]
       ELSE /\ wState' = [wState EXCEPT ![dReq] = "start_failed"]
            /\ wHandleOpen' = wHandleOpen
  /\ unacked' = unacked - 1
  /\ dPc' = "loop"
  /\ dReq' = None
  /\ UNCHANGED <<active, request_queue, send_pipe_closed, pipe, sent, is_threaded,
                 callVars, execOutcome, wEscaped, aPc, shutdownVars>>

\* lines 177-178: at the limit: task_done, then the request is to be re-queued
QueueThread_at_limit ==
  /\ dPc = "got"
  /\ dReq # SHUTDOWN_MESSAGE
  /\ ~(counter < max_concurrent_ansible_processes)
  /\ dPc' = "requeue"
  /\ unacked' = unacked - 1
  /\ UNCHANGED <<active, request_queue, counter, send_pipe_closed, pipe, sent,
                 is_threaded, callVars, workerVars, dReq, aPc, shutdownVars>>

\* QueueThread_requeue that forgets the request instead of putting it back
QueueThread_requeue_drop ==
  /\ dPc = "requeue"
  /\ request_queue' = request_queue
  /\ dPc' = "loop"
  /\ dReq' = None
  /\ unacked' = unacked
  /\ UNCHANGED <<active, counter, send_pipe_closed, pipe, sent, is_threaded,
                 callVars, workerVars, aPc, shutdownVars>>

\* line 183: self.request_queue.put(request)
QueueThread_requeue ==
  /\ dPc = "requeue"
  /\ request_queue' = QueuePut(request_queue, dReq)
  /\ dPc' = "loop"
  /\ dReq' = None
  /\ unacked' = unacked
  /\ UNCHANGED <<active, counter, send_pipe_closed, pipe, sent, is_threaded,
                 callVars, workerVars, aPc, shutdownVars>>

\* ------------------------- AnsibleWorkerThread.run / AnsibleWorkerProcess.run
\* WorkerBody whose handler also runs after a successful send (the send placed
\* before a statement of the try that raises)
WorkerBody_send_twice(request_id, oc, canSend) ==
  IF oc.kind = "empty"
    THEN [writes |-> <<>>, escaped |-> "none"]
  ELSE IF ~canSend
    THEN [writes |-> <<>>, escaped |-> "handle is closed"]
  ELSE IF oc.kind = "complete"
    THEN [writes |-> <<LifecycleExecution(request_id, STATUS_COMPLETE, NoFailureCode,
                                           <<>>, oc.val),
                        InternalErrorResult(request_id, "logging failed")>>,
          escaped |-> "none"]
  ELSE [writes |-> <<InternalErrorResult(request_id, oc.val)>>, escaped |-> "none"]

\* WorkerBody building the Result it sends anew, without the outputs
WorkerBody_drop_outputs(request_id, oc, canSend) ==
  IF oc.kind = "empty"
    THEN [writes |-> <<>>, escaped |-> "none"]
  ELSE IF ~canSend
    THEN [writes |-> <<>>, escaped |-> "handle is closed"]
  ELSE IF oc.kind = "complete"
    THEN [writes |-> <<LifecycleExecution(request_id, STATUS_COMPLETE, NoFailureCode,
                                           <<>>, "{}")>>,
          escaped |-> "none"]
  ELSE [writes |-> <<InternalErrorResult(request_id, oc.val)>>, escaped |-> "none"]

\* WorkerBody without the except clause: the collaborator's exception leaves run()
WorkerBody_no_except(request_id, oc, canSend) ==
  IF oc.kind = "empty"
    THEN [writes |-> <<>>, escaped |-> "none"]
  ELSE IF oc.kind = "raise"
    THEN [writes |-> <<>>, escaped |-> oc.val]
  ELSE IF ~canSend
    THEN [writes |-> <<>>, escaped |-> "handle is closed"]
  ELSE [writes |-> <<LifecycleExecution(request_id, STATUS_COMPLETE, NoFailureCode,
                                         <<>>, oc.val)>>,
        escaped |-> "none"]

\* WorkerBody that reports an empty return value as a failure
WorkerBody_empty_sends_failed(request_id, oc, canSend) ==
  IF ~canSend /\ oc.kind # "empty"
    THEN [writes |-> <<>>, escaped |-> "handle is closed"]
  ELSE IF oc.kind = "empty"
    THEN [writes |-> IF canSend
                       THEN <<InternalErrorResult(request_id, "Empty response")>>
                       ELSE <<>>,
          escaped |-> "none"]
  ELSE IF oc.kind = "complete"
    THEN [writes |-> <<LifecycleExecution(request_id, STATUS_COMPLETE, NoFailureCode,
                                           <<>>, oc.val)>>,
          escaped |-> "none"]
  ELSE [writes |-> <<InternalErrorResult(request_id, oc.val)>>, escaped |-> "none"]

\* the body both variants share: what is written to send_pipe and which
\* exception leaves run(). A send on a closed handle raises OSError; raised in
\* the try it is caught and the handler's own send raises it again.
WorkerBody(request_id, oc, canSend) ==
  IF oc.kind = "empty"
    THEN [writes |-> <<>>, escaped |-> "none"]
  ELSE IF ~canSend
    THEN [writes |-> <<>>, escaped |-> "handle is closed"]
  ELSE IF oc.kind = "complete"
    THEN [writes |-> <<LifecycleExecution(request_id, STATUS_COMPLETE, NoFailureCode,
                                           <<>>, oc.val)>>,
          escaped |-> "none"]
  ELSE [writes |-> <<InternalErrorResult(request_id, oc.val)>>, escaped |-> "none"]

\* WorkerFinish that gives the slot back (Counter.decrement) when the worker ends
WorkerFinish_decrement(r, oc, canSend) ==
  LET out == WorkerBody(r, oc, canSend) IN
  /\ wState[r] = "running"
  /\ execOutcome' = [execOutcome EXCEPT ![r] = oc]
  /\ pipe' = pipe \o out.writes
  /\ wEscaped' = [wEscaped EXCEPT ![r] = out.escaped]
  /\ wState' = [wState EXCEPT ![r] = IF out.escaped = "none" THEN "finished" ELSE "crashed"]
  /\ counter' = counter - 1
  /\ UNCHANGED <<active, request_queue, send_pipe_closed, sent, is_threaded,
                 callVars, wHandleOpen, dispatchVars, aPc, shutdownVars>>

WorkerFinish(r, oc, canSend) ==
  LET out == WorkerBody(r, oc, canSend) IN
  /\ wState[r] = "running"
  /\ execOutcome' = [execOutcome EXCEPT ![r] = oc]
  /\ pipe' = pipe \o out.writes
  /\ wEscaped' = [wEscaped EXCEPT ![r] = out.escaped]
  /\ wState' = [wState EXCEPT ![r] = IF out.escaped = "none" THEN "finished" ELSE "crashed"]
  /\ UNCHANGED <<active, request_queue, counter, send_pipe_closed, sent, is_threaded,
                 callVars, wHandleOpen, dispatchVars, aPc, shutdownVars>>

\* lines 196-213: the thread shares the parent's send_pipe object
AnsibleWorkerThread_run(r, oc) ==
  /\ is_threaded
  /\ WorkerFinish(r, oc, ~send_pipe_closed)

\* lines 228-248: the process writes to the copy of send_pipe it was forked with
AnsibleWorkerProcess_run(r, oc) ==
  /\ ~is_threaded
  /\ WorkerFinish(r, oc, wHandleOpen[r])

\* --------------------------------------------------------- ResponsesThread.run
\* every write end of the pipe is closed: recv() raises EOFError on an empty pipe
WriteEndsClosed ==
  /\ send_pipe_closed
  /\ is_threaded \/ \A r \in RequestIds : ~(wState[r] = "running" /\ wHandleOpen[r])

\* line 258: while self.ansible_processor_service.active
ResponsesThread_loop ==
  /\ aPc = "loop"
  /\ aPc' = IF active THEN "recv" ELSE "done"
  /\ UNCHANGED <<active, request_queue, counter, send_pipe_closed, pipe, sent,
                 is_threaded, callVars, workerVars, dispatchVars, shutdownVars>>

\* lines 260-263: result = self.recv_pipe.recv(); send_lifecycle_execution(result)
ResponsesThread_recv ==
  /\ aPc = "recv"
  /\ pipe # <<>>
  /\ sent' = Publish(sent, Head(pipe))
  /\ pipe' = Tail(pipe)
  /\ aPc' = "loop"
  /\ UNCHANGED <<active, request_queue, counter, send_pipe_closed, is_threaded,
                 callVars, workerVars, dispatchVars, shutdownVars>>

\* lines 267-269: except EOFError: pass
ResponsesThread_eof ==
  /\ aPc = "recv"
  /\ pipe = <<>>
  /\ WriteEndsClosed
  /\ aPc' = "loop"
  /\ UNCHANGED <<active, request_queue, counter, send_pipe_closed, pipe, sent,
                 is_threaded, callVars, workerVars, dispatchVars, shutdownVars>>

\* ---------------------------------------------------------------- behaviour
CallStep ==
  \E r \in RequestIds :
    \/ run_lifecycle_check_size(r)
    \/ run_lifecycle_put(r)

ShutdownStep == shutdown_queue \/ shutdown_close_pipe

DispatchStep ==
  \/ QueueThread_loop
  \/ QueueThread_next
  \/ QueueThread_shutdown_message
  \/ \E started \in BOOLEAN : QueueThread_spawn(started)
  \/ QueueThread_at_limit
  \/ QueueThread_requeue

WorkerStep ==
  \E r \in RequestIds, oc \in ExecOutcomes :
    \/ AnsibleWorkerThread_run(r, oc)
    \/ AnsibleWorkerProcess_run(r, oc)

ResponsesStep == ResponsesThread_loop \/ ResponsesThread_recv \/ ResponsesThread_eof

Next ==
  \/ \E r \in RequestIds, f \in SUBSET Fields : run_lifecycle_enter(r, f)
  \/ CallStep
  \/ shutdown_set_inactive
  \/ ShutdownStep
  \/ DispatchStep
  \/ WorkerStep
  \/ ResponsesStep

Spec == Init /\ [][Next]_vars

\* The threads and processes of the driver are scheduled fairly and every
\* execution call ends; callers and shutdown() are free to come or not, but a
\* call that has begun runs to its end.
FairSpec ==
  /\ Spec
  /\ WF_vars(CallStep)
  /\ WF_vars(ShutdownStep)
  /\ WF_vars(DispatchStep)
  /\ WF_vars(WorkerStep)
  /\ WF_vars(ResponsesStep)

\* ------------------------------------------------------------------ claims
\* the request has never been on the queue, with the dispatcher or a worker
NeverQueued(r) ==
  /\ ~InQueue(r)
  /\ dReq # r
  /\ wState[r] = "none"
  /\ ~InPipe(r)

\* the last request whose call has begun
LatestCall == CHOOSE r \in RequestIds :
                /\ callPc[r] # "new"
                /\ \A q \in RequestIds : q > r => callPc[q] = "new"

FieldOrder == <<"request_id", "lifecycle_name", "lifecycle_path">>

FirstMissing(f) ==
  FieldOrder[CHOOSE i \in 1..3 : FieldOrder[i] \notin f
                                  /\ \A j \in 1..(i - 1) : FieldOrder[j] \in f]

MessageNaming(field) ==
  CASE field = "request_id" -> "Request must have a request_id"
    [] field = "lifecycle_name" -> "Request must have a lifecycle_name"
    [] field = "lifecycle_path" -> "Request must have a lifecycle_path"

\* C1: a call whose request lacks request_id, lifecycle_name or lifecycle_path
\* raises the ValueError naming the first missing key (in that order), be the
\* driver active or not; the step that raises leaves the queue and the
\* published Results as they were, and no Result is ever published, queued or
\* executed for that request.
C1_InvalidRequestRaises ==
  /\ [](\A r \in RequestIds :
          /\ (callPc[r] # "new" /\ fields[r] # Fields) =>
                /\ callPc[r] = "raised"
                /\ raised[r] = MessageNaming(FirstMissing(fields[r]))
                /\ Published(r) = {}
                /\ NeverQueued(r)
          /\ (callPc[r] # "new" /\ fields[r] = Fields) =>
                (callPc[r] # "raised" /\ raised[r] = "none"))
  /\ [][\A r \in RequestIds :
          (callPc[r] = "new" /\ callPc'[r] = "raised") =>
            (request_queue' = request_queue /\ sent' = sent /\ pipe' = pipe)]_vars

\* C1 witness: a request lacking two keys raised after the driver went
\* inactive, while an earlier request waits on the queue
C1_Witness ==
  /\ ~active
  /\ callPc[1] = "queued" /\ InQueue(1)
  /\ callPc[2] = "raised" /\ fields[2] = {"lifecycle_path"} /\ lateCall

\* C2: a valid request whose call, having seen the driver active, finds the
\* queue depth >= max_queue_size publishes exactly one Result (FAILED,
\* insufficient capacity, "Request cannot be handled, driver is overloaded"),
\* leaves the queue as it was, and is never queued or given to a worker.
C2_OverloadedRejected ==
  /\ [](\A r \in RequestIds :
          callPc[r] = "rejected_overloaded" =>
            /\ Published(r) =
                  {[request_id |-> r, status |-> STATUS_FAILED,
                    failure_code |-> FAILURE_CODE_INSUFFICIENT_CAPACITY,
                    description |-> <<"Request cannot be handled, driver is overloaded">>,
                    outputs |-> "{}"]}
            /\ PublishedCount(r) = 1
            /\ NeverQueued(r))
  /\ [][\A r \in RequestIds :
          (/\ callPc[r] = "active_seen"
           /\ callPc'[r] # "active_seen"
           /\ Len(request_queue.items) >= max_queue_size) =>
            /\ callPc'[r] = "rejected_overloaded"
            /\ request_queue' = request_queue
            /\ PublishedCount(r)' = 1]_vars

\* C2 witness: the second request was rejected while the first one is on the queue
C2_Witness ==
  /\ active
  /\ callPc[1] = "queued" /\ InQueue(1)
  /\ Len(request_queue.items) = max_queue_size
  /\ callPc[2] = "rejected_overloaded" /\ PublishedCount(2) = 1

\* C3: once a shutdown() has returned, a call with a valid request publishes
\* exactly one Result (FAILED, insufficient capacity, "Driver is inactive") and
\* does not touch the queue, whatever the queue depth.
C3_InactiveAfterShutdown ==
  /\ [](\A r \in RequestIds :
          /\ (lateCall /\ r = LatestCall /\ fields[r] = Fields) =>
                callPc[r] = "rejected_inactive"
          /\ callPc[r] = "rejected_inactive" =>
                /\ Published(r) =
                      {[request_id |-> r, status |-> STATUS_FAILED,
                        failure_code |-> FAILURE_CODE_INSUFFICIENT_CAPACITY,
                        description |-> <<"Driver is inactive">>,
                        outputs |-> "{}"]}
                /\ PublishedCount(r) = 1
                /\ NeverQueued(r))
  /\ [][\A r \in RequestIds :
          (callPc[r] = "new" /\ callPc'[r] # "new" /\ shutdowns >= 1) =>
            request_queue' = request_queue]_vars

\* C3 witness: a call begun after shutdown() returned was rejected, the queue
\* holding less than max_queue_size (the sentinel was consumed)
C3_Witness ==
  /\ lateCall
  /\ shutdowns >= 1
  /\ fields[LatestCall] = Fields
  /\ callPc[LatestCall] = "rejected_inactive"
  /\ PublishedCount(LatestCall) = 1
  /\ Len(request_queue.items) < max_queue_size

\* C4: no request_id ever has more than one Result published to messaging.
C4_AtMostOneResult ==
  \A r \in RequestIds : PublishedCount(r) <= 1

\* C4 witness: every request has its Result, one through a worker whose
\* execution raised, one rejected, and shutdown() has run
C4_Witness ==
  /\ \A r \in RequestIds : PublishedCount(r) = 1
  /\ \E r \in RequestIds : wState[r] = "finished" /\ execOutcome[r].kind = "raise"
  /\ \E r \in RequestIds : callPc[r] = "rejected_overloaded"
  /\ shutdowns >= 1

\* the Result a worker must hand on for a COMPLETE execution with outputs o
CompleteResult(r, o) ==
  [request_id |-> r, status |-> STATUS_COMPLETE, failure_code |-> "none",
   description |-> <<>>, outputs |-> o]

PipeResults(r) == {pipe[i] : i \in {j \in 1..Len(pipe) : pipe[j].request_id = r}}

\* C5: every request placed on the queue eventually has a Result published.
\* Stated for the runs the claim is kindest to: the driver stays active, no
\* execution returns None and no worker fails to start.
C5_AdmittedEventuallyPublished ==
  \A r \in RequestIds :
    (callPc[r] = "queued") ~>
      \/ PublishedCount(r) >= 1
      \/ ~active
      \/ execOutcome[r].kind = "empty"
      \/ wState[r] = "start_failed"

C7_RaiseBecomesInternalError ==
  \A r \in RequestIds :
    execOutcome[r].kind = "raise" =>
      /\ wEscaped[r] # execOutcome[r].val
      /\ PublishedCount(r) <= 1
      /\ \A res \in Published(r) \cup PipeResults(r) :
           /\ res.request_id = r
           /\ res.status = STATUS_FAILED
           /\ res.failure_code = FAILURE_CODE_INTERNAL_ERROR
           /\ \E i \in 1..Len(res.description) : res.description[i] = execOutcome[r].val

\* C7 witness: the internal-error Result of a process worker has been published
C7_Witness ==
  /\ ~is_threaded
  /\ \E r \in RequestIds :
       /\ execOutcome[r].kind = "raise"
       /\ wState[r] = "finished"
       /\ PublishedCount(r) = 1

\* C8: a request the dispatch loop is re-queueing is eventually given to a
\* worker, unless shutdown() begins.
C8_RequeuedEventuallyDispatched ==
  \A r \in RequestIds :
    (dPc = "requeue" /\ dReq = r) ~> (wState[r] # "none" \/ ~active)

\* C9: once a shutdown() has returned, active stays False and the send_pipe
\* stays closed through any further shutdown(), whose steps write and publish
\* nothing; no request has two Results.
C9_ShutdownIdempotent ==
  /\ [](shutdowns >= 1 =>
          /\ active = FALSE
          /\ send_pipe_closed
          /\ \A r \in RequestIds : PublishedCount(r) <= 1)
  /\ [][(shutdowns >= 1 /\ shPc' # shPc) =>
          /\ sent' = sent
          /\ pipe' = pipe
          /\ active' = FALSE
          /\ send_pipe_closed']_vars

\* C9 witness: a second shutdown() has returned, with a Result published before
C9_Witness ==
  /\ shutdowns = 2
  /\ shPc = "idle"
  /\ \E r \in RequestIds : PublishedCount(r) = 1 /\ wState[r] = "finished"

\* C10: with max_queue_size = 1 and the driver active, a call that compares the
\* queue size while another request is executing in a worker is rejected as
\* overloaded.
C10_SecondRejectedWhileWorkerBusy ==
  [][\A r \in RequestIds :
      (/\ max_queue_size = 1
       /\ active
       /\ callPc[r] = "active_seen"
       /\ callPc'[r] # "active_seen"
       /\ \E w \in RequestIds \ {r} : wState[w] = "running") =>
        (callPc'[r] = "rejected_overloaded" /\ PublishedCount(r)' = 1)]_vars

\* C11: a put made by run_lifecycle never leaves the queue deeper than
\* max_queue_size, whatever the interleaving of callers and QueueThread.
C11_AdmissionWithinCapacity ==
  [][\A r \in RequestIds :
      (callPc[r] = "admitting" /\ callPc'[r] = "queued") =>
        Len(request_queue'.items) <= max_queue_size]_vars

Executing == {r \in RequestIds : wState[r] = "running"}

\* C12: in every reachable state the number of workers executing is at most
\* the Counter's value, and 0 <= counter <= max_concurrent_ansible_processes.
C12_WorkersWithinCounter ==
  /\ Cardinality(Executing) <= counter
  /\ 0 <= counter
  /\ counter <= max_concurrent_ansible_processes

\* a worker is executing while the counter is at the limit
C12_Witness ==
  /\ Executing # {}
  /\ counter = max_concurrent_ansible_processes

\* C13: the counter never decreases and no worker completion (complete, raise
\* or empty outcome) changes it; once it equals the limit it stays there and
\* no further worker is spawned.
C13_CounterNeverDecreases ==
  [][/\ counter' >= counter
     /\ \A r \in RequestIds :
          (wState[r] = "running" /\ wState'[r] # "running") => counter' = counter
     /\ counter = max_concurrent_ansible_processes =>
          /\ counter' = counter
          /\ \A r \in RequestIds : wState[r] = "none" => wState'[r] = "none"]_vars

\* at the limit, a worker has ended and a later request is dequeued and about
\* to be re-queued rather than started
C13_Witness ==
  /\ counter = max_concurrent_ansible_processes
  /\ \E r \in RequestIds : wState[r] \in {"finished", "crashed"}
  /\ Executing = {}
  /\ dPc = "requeue"
  /\ dReq \in RequestIds
  /\ wState[dReq] = "none"

\* the steps of the at-capacity branch of QueueThread.run (lines 177-183)
AtCapacityStep ==
  \/ dPc = "got" /\ dReq \in RequestIds /\ dPc' = "requeue"
  \/ dPc = "requeue" /\ dPc' # "requeue"

\* the at-capacity branch spawns nothing, leaves the counter alone and
\* publishes nothing
AtCapacityFrame ==
  /\ counter' = counter
  /\ wState' = wState
  /\ pipe' = pipe
  /\ sent' = sent

C15_ActiveOneWay ==
  /\ [](active <=> (shutdowns = 0 /\ shPc = "idle"))
  /\ [][~active => ~active']_vars

\* shutdown() has returned twice, a call was rejected as inactive, a worker has
\* ended and both loops have stopped, with active still false
C15_Witness ==
  /\ ~active
  /\ shutdowns = MaxShutdowns
  /\ \E r \in RequestIds : callPc[r] = "rejected_inactive"
  /\ \E r \in RequestIds : wState[r] \in {"finished", "crashed"}
  /\ dPc = "done"
  /\ aPc = "done"

\* C16: once shutdown() has been called QueueThread eventually stops (fair
\* scheduling).  It stops only on dequeuing the SHUTDOWN_MESSAGE, which it
\* acknowledges without starting a worker or changing the counter, or on
\* testing active at the top of the loop; the SHUTDOWN_MESSAGE is never
\* started as a request nor re-queued.
C16_DispatchLoopTerminates ==
  /\ (~active) ~> (dPc = "done")
  /\ [](dPc = "requeue" => dReq # SHUTDOWN_MESSAGE)
  /\ [][/\ (dPc = "got" /\ dReq = SHUTDOWN_MESSAGE /\ dPc' # dPc) =>
            /\ dPc' = "done"
            /\ unacked' = unacked - 1
            /\ counter' = counter
            /\ wState' = wState
            /\ request_queue' = request_queue
        /\ (dPc # "done" /\ dPc' = "done") =>
            \/ dPc = "got" /\ dReq = SHUTDOWN_MESSAGE
            \/ dPc = "loop" /\ ~active]_vars

\* the loop has stopped after taking the SHUTDOWN_MESSAGE of the only
\* shutdown() off the queue; nothing was started
C16_Witness ==
  /\ dPc = "done"
  /\ unacked = 0
  /\ shutdowns = 1
  /\ shPc = "idle"
  /\ request_queue.items = <<>>
  /\ ~request_queue.accepting
  /\ counter = 0
  /\ \A r \in RequestIds : wState[r] = "none"

\* C17: every item QueueThread obtains from next() is acknowledged with
\* task_done() exactly once on every branch (SHUTDOWN_MESSAGE, started worker,
\* start that raises, re-queue at the limit), and task_done() is never called
\* when next() returned nothing: an item is unacknowledged exactly while the
\* loop holds it and has not yet chosen its branch.
C17_TaskDoneExactlyOnce ==
  /\ unacked = IF dPc = "got" THEN 1 ELSE 0
  /\ dPc = "got" <=> (dReq # None /\ dPc # "requeue")
  /\ dPc = "requeue" => dReq \in RequestIds

\* the loop has stopped after a start that raised and a re-queue at the
\* limit, with nothing left unacknowledged
C17_Witness ==
  /\ unacked = 0
  /\ dPc = "done"
  /\ dReq = None
  /\ \E r \in RequestIds : wState[r] = "start_failed"
  /\ \E r \in RequestIds : wState[r] = "none" /\ callPc[r] = "queued" /\ ~InQueue(r)

\* C18: a failure inside one iteration of QueueThread.run (here a
\* worker.start() that raises) never ends the loop: it ends only through
\* shutdown, the iteration after the failure begins, and while the driver is
\* active a request queued behind the failed one is still given to a worker.
C18_LoopSurvivesFailure ==
  /\ [][(dPc # "done" /\ dPc' = "done") =>
          (~active \/ (dPc = "got" /\ dReq = SHUTDOWN_MESSAGE))]_vars
  /\ [][(\E q \in RequestIds : wState[q] # "start_failed" /\ wState'[q] = "start_failed")
          => dPc' = "loop"]_vars
  /\ \A r \in RequestIds :
       ((\E q \in RequestIds : wState[q] = "start_failed") /\ InQueue(r) /\ active)
         ~> (wState[r] # "none" \/ ~active)

\* C19: in every reachable state the depth of the queue is at most
\* max_queue_size + max_concurrent_ansible_processes.
C19_DepthBounded ==
  QueueSize(request_queue) <= max_queue_size + max_concurrent_ansible_processes

\* C20: when the execution collaborator returns None for a dispatched request
\* the worker (thread or process) writes nothing to the pipe and ends
\* normally, and no Result is ever published for that request.
C20_EmptyReturnNoResult ==
  \A r \in RequestIds :
    execOutcome[r].kind = "empty" =>
      /\ wState[r] = "finished"
      /\ wEscaped[r] = "none"
      /\ ~InPipe(r)
      /\ Published(r) = {}

\* a worker got None from the collaborator while its pipe handle was open and
\* ResponsesThread was still receiving
C20_Witness ==
  \E r \in RequestIds :
    /\ execOutcome[r].kind = "empty"
    /\ wState[r] = "finished"
    /\ ~send_pipe_closed
    /\ active
    /\ aPc = "recv"

\* C21: with run_lifecycle running concurrently with shutdown(), no request is
\* put on the queue once active is False: every call either puts its request
\* while active is still True or publishes the "Driver is inactive" Result.
C21_NoPutAfterInactive ==
  [][\A r \in RequestIds :
       /\ (callPc[r] = "admitting" /\ callPc'[r] # "admitting") =>
            (active /\ callPc'[r] = "queued")
       /\ (callPc[r] = "new" /\ callPc'[r] # "new" /\ ~active) =>
            callPc'[r] \in {"raised", "rejected_inactive"}]_vars

\* C22: no worker is started after a shutdown() has returned (active False,
\* send_pipe closed), whatever the interleaving of QueueThread with
\* shutdown(); and no worker ever sends its Result on a closed send_pipe.
C22_NoSpawnAfterShutdown ==
  /\ [][\A r \in RequestIds :
          (wState[r] = "none" /\ wState'[r] = "running") => shutdowns = 0]_vars
  /\ [](\A r \in RequestIds : wEscaped[r] # "handle is closed")

=============================================================================
